---------------------------- MODULE Spec2Model ----------------------------
(***************************************************************************)
(* One authentication attempt of src/backend_pgsql.c:                      *)
(* backend_authenticate -> db_connect -> pg_execParam -> expand_query ->   *)
(* PQexecParams -> the row loop with password_encrypt -> PQclear ->        *)
(* PQfinish.  The store (libpq), the resolver and the memory that follows  *)
(* the template are the environment: their answers are chosen with \E.     *)
(***************************************************************************)
EXTENDS Integers, Sequences, FiniteSets, TLC

(* ------------------------------ bounds -------------------------------- *)
\* templates are built from at most MaxUnits units (a token or a character)
MaxUnits == 2
\* and from 1..MaxRep repetitions of one token
MaxRep == 10
\* rows in a result set
MaxRows == 2
\* bytes of foreign memory the build pass may read behind the terminator
MaxJunk == 2

(* ------------------------- program constants -------------------------- *)
\* const char *values[128]
ValuesSize == 128
\* calc_PBKDF2_HMAC_SHA256(pass, decoded_salt, 27500, 64)
PBKDF2Iter == 27500
PBKDF2KeyLen == 64
\* len += 4 for each of %u %p %s in the pre-scan
TokenReserve == 4

\* every string is a sequence of characters; the null pointer and the
\* terminating zero byte are values no character sequence equals
NULL == <<"NULL">>
NUL == "NUL"

PAM_SUCCESS == "PAM_SUCCESS"
PAM_AUTH_ERR == "PAM_AUTH_ERR"
PAM_USER_UNKNOWN == "PAM_USER_UNKNOWN"
PAM_AUTHINFO_UNAVAIL == "PAM_AUTHINFO_UNAVAIL"

PW_CLEAR == "PW_CLEAR"
PW_MD5 == "PW_MD5"
PW_CRYPT == "PW_CRYPT"
PW_CRYPT_MD5 == "PW_CRYPT_MD5"
PW_SHA1 == "PW_SHA1"
PW_MD5_POSTGRES == "PW_MD5_POSTGRES"
PW_CRYPT_SHA512 == "PW_CRYPT_SHA512"
PW_FUNCTION == "PW_FUNCTION"
PW_PBKDF2 == "PW_PBKDF2"

pw_scheme == {PW_CLEAR, PW_MD5, PW_CRYPT, PW_CRYPT_MD5, PW_SHA1,
              PW_MD5_POSTGRES, PW_CRYPT_SHA512, PW_FUNCTION, PW_PBKDF2}

CONNECTION_OK == "CONNECTION_OK"
CONNECTION_BAD == "CONNECTION_BAD"
PGRES_COMMAND_OK == "PGRES_COMMAND_OK"
PGRES_TUPLES_OK == "PGRES_TUPLES_OK"
PGRES_FATAL_ERROR == "PGRES_FATAL_ERROR"

Max(a, b) == IF a >= b THEN a ELSE b

(* ------------------------------ inputs -------------------------------- *)
\* strings are sequences of characters, so that concatenation is real
TheUser == <<"a", "l">>
ThePass == <<"p", "w">>
TheService == <<"s", "v">>
HostPlain == <<"g", "w">>
HostDotted == <<"g", ".", "w">>
TheAddr == <<"1", ".", "2">>

Hosts == {NULL, HostPlain, HostDotted}

Units == {<<"%", "u">>, <<"%", "p">>, <<"%", "s">>, <<"%", "h">>,
          <<"%", "i">>, <<"%", "%">>, <<"%", "x">>, <<"a">>, <<"%">>}

RECURSIVE UnitSeqs(_)
UnitSeqs(n) ==
    IF n = 0 THEN {<< >>}
    ELSE LET S == UnitSeqs(n - 1)
         IN  S \cup {t \o u : t \in S, u \in Units}

Rep(u, n) == [k \in 1..(n * Len(u)) |-> u[((k - 1) % Len(u)) + 1]]

\* the two-token templates the specification gives as examples
Examples == {<<"%", "u", " ", "%", "p">>, <<"%", "u", " ", "%", "u">>}

\* templates around the size of the values array
Long == {Rep(<<"%", "u">>, n) : n \in {ValuesSize - 1, ValuesSize, ValuesSize + 1}}

Repeated == {Rep(u, n) : u \in {<<"%", "u">>, <<"%", "h">>}, n \in 1..MaxRep}

Templates == {NULL} \cup UnitSeqs(MaxUnits) \cup Examples \cup Repeated \cup Long

\* one template for each way the expansion can go
FlowTemplates == {NULL, <<"%", "u", " ", "%", "p">>, <<"%", "i">>,
                  <<"%", "x">>, <<"%", "%">>, <<"a", "%">>}


(* --------------------------- string helpers --------------------------- *)
DigitChar(d) == <<"0", "1", "2", "3", "4", "5", "6", "7", "8", "9">>[d + 1]

\* what printf's %i writes for a non-negative number
RECURSIVE DecStr(_)
DecStr(n) == IF n < 10 THEN <<DigitChar(n)>>
             ELSE DecStr(n \div 10) \o <<DigitChar(n % 10)>>

\* the C string held in a buffer: its bytes up to the first zero byte
CStr(b) ==
    LET zeros == {k \in 1..Len(b) : b[k] = NUL}
    IN  IF zeros = {} THEN b
        ELSE SubSeq(b, 1, (CHOOSE k \in zeros : \A j \in zeros : k <= j) - 1)

HasDot(s) == \E k \in 1..Len(s) : s[k] = "."

(* ------------------------ digests and encodings ----------------------- *)
\* gcry_md_hash_buffer + the "%.2x" loop: an injective stand-in for the
\* lowercase hex digest of msg
MD5Hex(msg) == <<"md5hex[">> \o msg \o <<"]">>
SHA1Hex(msg) == <<"sha1hex[">> \o msg \o <<"]">>

\* crypt(3): the setting is a previous hash (its salt is reused) or two
\* salt characters; a setting shorter than that yields no hash
Crypt(key, setting) ==
    IF Len(setting) >= 3 /\ setting[1] = "crypt["
    THEN <<"crypt[", setting[2], setting[3]>> \o key \o <<"]">>
    ELSE IF Len(setting) >= 2
    THEN <<"crypt[", setting[1], setting[2]>> \o key \o <<"]">>
    ELSE NULL

base64_encode(input) == <<"b64[">> \o input \o <<"]">>

\* BIO_read of text that is not base64 leaves the zeroed buffer
base64_decode(input) ==
    IF Len(input) >= 2 /\ input[1] = "b64[" /\ input[Len(input)] = "]"
    THEN SubSeq(input, 2, Len(input) - 1)
    ELSE << >>

\* PKCS5_PBKDF2_HMAC over HMAC-SHA256, then base64 of strlen(digest) bytes
calc_PBKDF2_HMAC_SHA256(passwd, salt, n_iter, key_len) ==
    base64_encode(<<"pbkdf2[">> \o passwd \o <<"|">> \o salt \o <<"|">>
                  \o DecStr(n_iter) \o <<"|">> \o DecStr(key_len) \o <<"]">>)

\* reading through a null pointer: the outcome is not defined
UB == <<"UB">>

\* password_encrypt(options, user, pass, salt, stored_salt); salt is the
\* stored password column.  The result is the returned string, NULL, or UB
\* where the code applies strlen to a null stored_salt.
password_encrypt(pw_type, user, pass, salt, stored_salt) ==
    CASE pw_type \in {PW_CRYPT, PW_CRYPT_MD5, PW_CRYPT_SHA512} ->
            Crypt(pass, salt)
      [] pw_type = PW_MD5 -> MD5Hex(pass)
      [] pw_type = PW_MD5_POSTGRES -> <<"m", "d", "5">> \o MD5Hex(pass \o user)
      [] pw_type = PW_SHA1 -> SHA1Hex(pass)
      [] pw_type \in {PW_CLEAR, PW_FUNCTION, PW_PBKDF2} ->
            IF stored_salt = NULL THEN UB
            ELSE calc_PBKDF2_HMAC_SHA256(pass, base64_decode(stored_salt),
                                         PBKDF2Iter, PBKDF2KeyLen)
      [] OTHER -> pass


(* ------------------------------ the state ----------------------------- *)
VARIABLES
    options,     \* modopt_t: db, connstr, query_auth, pw_type
    answer,      \* the rows the store holds for the query
    rhost,       \* backend_authenticate's rhost argument
    pc,          \* where the attempt stands
    rc,          \* backend_authenticate's return value
    connStatus,  \* PQstatus of the connection PQconnectdb returned
    connsOpened, \* PGconn objects PQconnectdb has returned
    connsLive,   \* PGconn objects not yet given to PQfinish
    raddr,       \* pg_execParam's resolved address
    raddrLive,   \* the raddr buffer is allocated
    len,         \* expand_query's len, the pre-scan's count
    cap,         \* bytes malloc'ed for res in expand_query (len + 1)
    buf,         \* bytes written to res so far; q = res + Len(buf)
    cmdLive,     \* the res/command buffer is allocated
    qHigh,       \* bytes of res the build pass has touched
    p,           \* expand_query's read position in the template (1-based)
    maxRead,     \* highest template position read
    nparm,       \* expand_query's nparm
    values,      \* values[0 .. Len-1] as written by expand_query
    slotHigh,    \* highest slot of values[] expand_query has written
    damaged,     \* a finished call has read or written outside an object
    execCalls,   \* calls of PQexecParams
    sent,        \* what PQexecParams was given
    resStatus,   \* PQresultStatus of the result
    resLive,     \* PGresult objects not yet given to PQclear
    rows,        \* the result set
    i,           \* the row loop's index
    tmps         \* password_encrypt's result for each row examined

vars == <<options, answer, rhost, pc, rc, connStatus, connsOpened, connsLive, raddr,
          raddrLive, len, cap, buf, cmdLive, qHigh, p, maxRead, nparm, values,
          slotHigh, damaged, execCalls, sent, resStatus, resLive, rows, i, tmps>>

expandVars == <<len, cap, buf, cmdLive, qHigh, p, maxRead, nparm, values, slotHigh>>
storeVars == <<execCalls, sent, resStatus, resLive, rows, i, tmps>>
connVars == <<connStatus, connsOpened, connsLive, damaged>>

\* not yet set
None == "none"
NothingSent == [query |-> << >>, nparm |-> 0, args |-> << >>]
NotCalled == <<"not called">>
Garbage == <<"?">>

(* ------------------------------ the store ----------------------------- *)
TheSalt == base64_encode(<<"n", "a">>)

StoredFor(pw_type) ==
    {<<"t">>}
    \cup CASE pw_type = PW_CLEAR ->
                {ThePass, calc_PBKDF2_HMAC_SHA256(ThePass, <<"n", "a">>,
                                                  PBKDF2Iter, PBKDF2KeyLen)}
           [] pw_type = PW_PBKDF2 ->
                {calc_PBKDF2_HMAC_SHA256(ThePass, <<"n", "a">>,
                                         PBKDF2Iter, PBKDF2KeyLen)}
           [] pw_type = PW_MD5 -> {MD5Hex(ThePass)}
           [] pw_type = PW_SHA1 -> {SHA1Hex(ThePass)}
           [] pw_type = PW_MD5_POSTGRES ->
                {<<"m", "d", "5">> \o MD5Hex(ThePass \o TheUser)}
           [] pw_type = PW_FUNCTION -> {<<"f">>}
           [] OTHER -> {Crypt(ThePass, <<"a", "b">>)}

\* the flag "t", and the stored passwords a deployment of each scheme
\* holds (the flag "f" for the function-delegated scheme)
\* a row: PQgetisnull(res, i, 0), PQgetvalue(res, i, 0), and the same for
\* column 1 (a column that does not exist reads as null)
RowsFor(pw_type) ==
    {[null0 |-> TRUE, pw |-> NULL, salt |-> NULL]}
    \cup [null0 : {FALSE}, pw : StoredFor(pw_type), salt : {NULL, TheSalt}]

RECURSIVE SeqsUpTo(_, _)
SeqsUpTo(S, n) ==
    IF n = 0 THEN {<< >>}
    ELSE LET T == SeqsUpTo(S, n - 1)
         IN  T \cup {Append(t, x) : t \in T, x \in S}

\* a null row, a row without a salt, a row with one
ProbeAnswers ==
    {<< >>,
     <<[null0 |-> TRUE, pw |-> NULL, salt |-> NULL],
       [null0 |-> FALSE, pw |-> <<"t">>, salt |-> NULL]>>,
     <<[null0 |-> FALSE, pw |-> <<"f">>, salt |-> TheSalt]>>}

(* ------------------------------ db_connect ---------------------------- *)
TheDb == <<"d", "b">>

build_conninfo(o) == IF o.db # NULL THEN <<"dbname=">> \o o.db ELSE << >>

\* the attempt's locals before backend_authenticate runs
Fresh ==
    /\ pc = "start"
    /\ rc = None
    /\ connStatus = None
    /\ connsOpened = 0
    /\ connsLive = 0
    /\ raddr = NULL
    /\ raddrLive = 0
    /\ len = 0
    /\ cap = 0
    /\ buf = << >>
    /\ cmdLive = 0
    /\ qHigh = 0
    /\ p = 1
    /\ maxRead = 0
    /\ nparm = 0
    /\ values = << >>
    /\ slotHigh = -1
    /\ damaged = FALSE
    /\ execCalls = 0
    /\ sent = NothingSent
    /\ resStatus = None
    /\ resLive = 0
    /\ rows = << >>
    /\ i = 0
    /\ tmps = << >>

\* every scheme and every answer of the store, a template for each way
\* the expansion can go
Init ==
    /\ options \in [db : {TheDb},
                    connstr : {NULL, build_conninfo([db |-> TheDb])},
                    query_auth : FlowTemplates,
                    pw_type : pw_scheme]
    /\ answer \in SeqsUpTo(RowsFor(options.pw_type), MaxRows)
    /\ rhost \in Hosts
    /\ Fresh

\* every template, two schemes and three answers of the store
InitExpand ==
    /\ options \in [db : {TheDb},
                    connstr : {NULL, build_conninfo([db |-> TheDb])},
                    query_auth : Templates,
                    pw_type : {PW_FUNCTION, PW_PBKDF2}]
    /\ answer \in ProbeAnswers
    /\ rhost \in Hosts
    /\ Fresh

\* db_connect: the connstr is built on first use; PQconnectdb returns a
\* PGconn object whatever the connection's status
db_connect(status) ==
    /\ options' = IF options.connstr = NULL
                  THEN [options EXCEPT !.connstr = build_conninfo(options)]
                  ELSE options
    /\ connStatus' = status
    /\ connsOpened' = connsOpened + 1
    /\ connsLive' = connsLive + 1
    /\ UNCHANGED damaged

\* backend_authenticate, db_connect succeeded: rc = PAM_AUTH_ERR and on
ConnectOk ==
    /\ pc = "start"
    /\ db_connect(CONNECTION_OK)
    /\ rc' = PAM_AUTH_ERR
    /\ pc' = "execParam"
    /\ UNCHANGED <<answer, rhost, raddr, raddrLive, expandVars, storeVars>>

\* db_connect returned NULL: return PAM_AUTH_ERR
ConnectFail ==
    /\ pc = "start"
    /\ db_connect(CONNECTION_BAD)
    /\ rc' = PAM_AUTH_ERR
    /\ pc' = "done"
    /\ UNCHANGED <<answer, rhost, raddr, raddrLive, expandVars, storeVars>>


(* ----------------------------- expand_query --------------------------- *)
Tokens == {"u", "p", "s", "h", "i"}

\* the byte at position k of a template, k up to its terminator
MemAt(query, k) == IF k <= Len(query) THEN query[k] ELSE NUL

\* what lies in memory behind the template's terminator is not the
\* program's: each byte read there is any byte (bounded: after MaxJunk
\* bytes a zero byte is found)
JunkChars == {NUL, "%", "u", "a"}

CharsAt(k) ==
    LET n == Len(options.query_auth)
    IN  IF k <= n + 1 THEN {MemAt(options.query_auth, k)}
        ELSE IF k - (n + 1) <= MaxJunk THEN JunkChars
        ELSE {NUL}

\* the value a token binds
TokenValue(d) ==
    CASE d = "u" -> TheUser
      [] d = "p" -> ThePass
      [] d = "s" -> TheService
      [] d = "h" -> rhost
      [] d = "i" -> raddr

\* sprintf(q, "$%i", ++nparm), without the terminator
Placeholder(n) == <<"$">> \o DecStr(n)

CopyChar_keepPercent(b, c) == b \o <<"%", c>>

\* *q++ = *p++
CopyChar(b, c) == Append(b, c)

\* pg_execParam up to the call of expand_query, and expand_query's test
\* of its template: the resolver's answer; a null template ends the
\* expansion with *command = NULL
ExecParamBegin ==
    /\ pc = "execParam"
    /\ \E r \in (IF rhost = NULL THEN {NULL} ELSE {NULL, TheAddr}) :
          /\ raddr' = r
          /\ raddrLive' = IF r = NULL THEN 0 ELSE 1
    /\ slotHigh' = 0                       \* bzero(values, sizeof(*values))
    /\ buf' = IF options.query_auth = NULL THEN NULL ELSE buf
    /\ pc' = IF options.query_auth = NULL THEN "expanded" ELSE "prescan"
    /\ UNCHANGED <<options, answer, rhost, rc, connVars, len, cap, cmdLive, qHigh, p,
                   maxRead, nparm, values, storeVars>>

scanFrame == <<options, answer, rhost, rc, connVars, raddr, raddrLive, cap, buf,
               cmdLive, qHigh, nparm, values, slotHigh, storeVars>>

\* the pre-scan meets %u, %p or %s: len += 4; p += 2
ScanToken ==
    /\ pc = "prescan"
    /\ MemAt(options.query_auth, p) = "%"
    /\ MemAt(options.query_auth, p + 1) \in {"u", "p", "s"}
    /\ len' = len + TokenReserve
    /\ p' = p + 2
    /\ maxRead' = Max(maxRead, p + 1)
    /\ UNCHANGED <<pc, scanFrame>>

\* the pre-scan meets %%: len++; p += 2
ScanEscape ==
    /\ pc = "prescan"
    /\ MemAt(options.query_auth, p) = "%"
    /\ MemAt(options.query_auth, p + 1) = "%"
    /\ len' = len + 1
    /\ p' = p + 2
    /\ maxRead' = Max(maxRead, p + 1)
    /\ UNCHANGED <<pc, scanFrame>>

\* any other byte, a % before anything else included: len++; p++
ScanChar ==
    /\ pc = "prescan"
    /\ MemAt(options.query_auth, p) # NUL
    /\ MemAt(options.query_auth, p) = "%"
          => MemAt(options.query_auth, p + 1) \notin {"u", "p", "s", "%"}
    /\ len' = len + 1
    /\ p' = p + 1
    /\ maxRead' = Max(maxRead, IF MemAt(options.query_auth, p) = "%"
                                THEN p + 1 ELSE p)
    /\ UNCHANGED <<pc, scanFrame>>

\* the pre-scan reads the zero byte: res = malloc(len + 1); the build
\* pass starts at the head of the template
ScanEnd ==
    /\ pc = "prescan"
    /\ MemAt(options.query_auth, p) = NUL
    /\ maxRead' = Max(maxRead, p)
    /\ cap' = len + 1
    /\ cmdLive' = 1
    /\ buf' = << >>
    /\ p' = 1
    /\ pc' = "build"
    /\ UNCHANGED <<options, answer, rhost, rc, connVars, raddr, raddrLive, len, qHigh,
                   nparm, values, slotHigh, storeVars>>

\* the writes of one case 'u' .. 'i' of the switch
TokenWrite(d) ==
    /\ nparm' = nparm + 1
    /\ values' = Append(values, TokenValue(d))
    /\ slotHigh' = Max(slotHigh, nparm)
    /\ qHigh' = Max(qHigh, Len(buf) + Len(Placeholder(nparm + 1)) + 1)
    /\ p' = p + 2
    /\ maxRead' = Max(maxRead, p + 1)

\* %u %p %s %h, and %i when the abort does not apply
BuildToken ==
    /\ pc = "build"
    /\ \E c \in CharsAt(p), d \in CharsAt(p + 1) :
          /\ c = "%"
          /\ d \in Tokens
          /\ d = "i" /\ raddr = NULL => rhost # NULL /\ ~HasDot(rhost)
          /\ TokenWrite(d)
    /\ buf' = buf \o Placeholder(nparm + 1)
    /\ UNCHANGED <<options, answer, rhost, pc, rc, connVars, raddr, raddrLive, len, cap,
                   cmdLive, storeVars>>

\* %i, no resolved address, a dot in rhost: free(res), *command = NULL
BuildAmbiguousHost ==
    /\ pc = "build"
    /\ \E c \in CharsAt(p), d \in CharsAt(p + 1) :
          /\ c = "%"
          /\ d = "i"
          /\ raddr = NULL /\ rhost # NULL /\ HasDot(rhost)
          /\ TokenWrite(d)
    /\ buf' = NULL
    /\ cmdLive' = 0
    /\ pc' = "expanded"
    /\ UNCHANGED <<options, answer, rhost, rc, connVars, raddr, raddrLive, len, cap,
                   storeVars>>

\* %i, no resolved address, rhost a null pointer: strchr(NULL, '.') is
\* not defined; the process dies, or the call answers either way
BuildNullHost ==
    /\ pc = "build"
    /\ \E c \in CharsAt(p), d \in CharsAt(p + 1) :
          /\ c = "%"
          /\ d = "i"
          /\ raddr = NULL /\ rhost = NULL
          /\ TokenWrite(d)
    /\ \E outcome \in {"fault", "dot", "no dot"} :
          /\ pc' = CASE outcome = "fault" -> "crashed"
                     [] outcome = "dot" -> "expanded"
                     [] OTHER -> "build"
          /\ buf' = IF outcome = "dot" THEN NULL
                    ELSE buf \o Placeholder(nparm + 1)
          /\ cmdLive' = IF outcome = "dot" THEN 0 ELSE cmdLive
    /\ UNCHANGED <<options, answer, rhost, rc, connVars, raddr, raddrLive, len, cap,
                   storeVars>>

\* case '%' and default: the byte after the % is copied, whatever it is
BuildEscape ==
    /\ pc = "build"
    /\ \E c \in CharsAt(p), d \in CharsAt(p + 1) :
          /\ c = "%"
          /\ d \notin Tokens
          /\ buf' = CopyChar(buf, d)
    /\ qHigh' = Max(qHigh, Len(buf) + 1)
    /\ p' = p + 2
    /\ maxRead' = Max(maxRead, p + 1)
    /\ UNCHANGED <<options, answer, rhost, pc, rc, connVars, raddr, raddrLive, len, cap,
                   cmdLive, nparm, values, slotHigh, storeVars>>

\* any byte but % and the zero byte is copied
BuildLiteral ==
    /\ pc = "build"
    /\ \E c \in CharsAt(p) :
          /\ c \notin {"%", NUL}
          /\ buf' = CopyChar(buf, c)
    /\ qHigh' = Max(qHigh, Len(buf) + 1)
    /\ p' = p + 1
    /\ maxRead' = Max(maxRead, p)
    /\ UNCHANGED <<options, answer, rhost, pc, rc, connVars, raddr, raddrLive, len, cap,
                   cmdLive, nparm, values, slotHigh, storeVars>>

\* the loop ends at a zero byte: *q = 0; *command = res;
\* values[nparm] = NULL; return nparm
BuildEnd ==
    /\ pc = "build"
    /\ NUL \in CharsAt(p)
    /\ buf' = Append(buf, NUL)
    /\ qHigh' = Max(qHigh, Len(buf) + 1)
    /\ maxRead' = Max(maxRead, p)
    /\ values' = Append(values, NULL)
    /\ slotHigh' = Max(slotHigh, nparm)
    /\ pc' = "expanded"
    /\ UNCHANGED <<options, answer, rhost, rc, connVars, raddr, raddrLive, len, cap,
                   cmdLive, p, nparm, storeVars>>


(* ----------------- pg_execParam after expand_query -------------------- *)
\* the build pass has read behind the template's terminator, written
\* behind the len + 1 bytes of res, written behind values[127]
Overread == maxRead > Len(options.query_auth) + 1
BufferOverflow == qHigh > cap
ValuesOverflow == slotHigh >= ValuesSize

\* pg_execParam returns: its locals and expand_query's end with the call
EndOfCall ==
    /\ damaged' = (damaged \/ Overread \/ BufferOverflow \/ ValuesOverflow)
    /\ raddr' = NULL
    /\ len' = 0
    /\ cap' = 0
    /\ buf' = << >>
    /\ qHigh' = 0
    /\ p' = 1
    /\ maxRead' = 0
    /\ nparm' = 0
    /\ values' = << >>
    /\ slotHigh' = -1

\* command == NULL: return PAM_AUTH_ERR; backend_authenticate skips the
\* row loop and goes on to PQfinish
ExpandFailed ==
    /\ pc = "expanded"
    /\ buf = NULL
    /\ EndOfCall
    /\ pc' = "finish"
    /\ UNCHANGED <<options, answer, rhost, rc, connStatus, connsOpened,
                   connsLive, raddrLive, cmdLive, storeVars>>

\* PQexecParams(conn, command, nparm, 0, values, ...); free(command);
\* free(raddr)
PQexecParams(status) ==
    /\ execCalls' = execCalls + 1
    /\ sent' = [query |-> CStr(buf), nparm |-> nparm,
                args |-> SubSeq(values, 1, nparm)]
    /\ resStatus' = status
    /\ resLive' = resLive + 1
    /\ cmdLive' = 0
    /\ raddrLive' = 0
    /\ EndOfCall

\* the result's status is neither command-ok nor tuples-ok: pg_execParam
\* returns PAM_AUTHINFO_UNAVAIL, which backend_authenticate only compares
\* with PAM_SUCCESS
ExecFail ==
    /\ pc = "expanded"
    /\ buf # NULL
    /\ PQexecParams(PGRES_FATAL_ERROR)
    /\ pc' = "finish"
    /\ UNCHANGED <<options, answer, rhost, rc, connStatus, connsOpened,
                   connsLive, rows, i, tmps>>

\* pg_execParam returns PAM_SUCCESS: row_count = PQntuples(res)
ExecOk ==
    /\ pc = "expanded"
    /\ buf # NULL
    /\ \E status \in (IF answer = << >>
                      THEN {PGRES_COMMAND_OK, PGRES_TUPLES_OK}
                      ELSE {PGRES_TUPLES_OK}) :
          PQexecParams(status)
    /\ rows' = answer
    /\ rc' = IF Len(answer) = 0 THEN PAM_USER_UNKNOWN ELSE rc
    /\ pc' = IF Len(answer) = 0 THEN "clear" ELSE "rows"
    /\ i' = 0
    /\ UNCHANGED <<options, answer, rhost, connStatus, connsOpened, connsLive,
                   tmps>>

(* ------------------------------ the row loop -------------------------- *)
RowMatch_inverted(pw_type, stored_pw, tmp) ==
    IF pw_type = PW_FUNCTION THEN stored_pw # <<"t">>
    ELSE tmp # NULL /\ stored_pw # tmp

\* the comparison of one row whose first column is not null
RowMatch(pw_type, stored_pw, tmp) ==
    IF pw_type = PW_FUNCTION THEN stored_pw = <<"t">>
    ELSE tmp # NULL /\ stored_pw = tmp

LoopOn == i < Len(rows) /\ rc # PAM_SUCCESS

rowFrame == <<options, answer, rhost, connVars, raddr, raddrLive, expandVars,
              execCalls, sent, resStatus, resLive, rows>>

\* PQgetisnull(res, i, 0): the row is passed over
RowNull ==
    /\ pc = "rows" /\ LoopOn
    /\ rows[i + 1].null0
    /\ tmps' = Append(tmps, NotCalled)
    /\ i' = i + 1
    /\ UNCHANGED <<pc, rc, rowFrame>>

\* options->pw_type == PW_FUNCTION: the column is compared with "t"
RowFunction ==
    /\ pc = "rows" /\ LoopOn
    /\ ~rows[i + 1].null0
    /\ options.pw_type = PW_FUNCTION
    /\ tmps' = Append(tmps, NotCalled)
    /\ rc' = IF RowMatch(options.pw_type, rows[i + 1].pw, NULL)
             THEN PAM_SUCCESS ELSE rc
    /\ i' = i + 1
    /\ UNCHANGED <<pc, rowFrame>>

\* tmp = password_encrypt(...); compare; free(tmp)
RowEncrypt ==
    /\ pc = "rows" /\ LoopOn
    /\ ~rows[i + 1].null0
    /\ options.pw_type # PW_FUNCTION
    /\ LET tmp == password_encrypt(options.pw_type, TheUser, ThePass,
                                   rows[i + 1].pw, rows[i + 1].salt)
       IN  /\ tmp # UB
           /\ tmps' = Append(tmps, tmp)
           /\ rc' = IF RowMatch(options.pw_type, rows[i + 1].pw, tmp)
                    THEN PAM_SUCCESS ELSE rc
    /\ i' = i + 1
    /\ UNCHANGED <<pc, rowFrame>>

\* password_encrypt reads through a null stored_salt: the process dies,
\* or the call returns something
RowEncryptNullSalt ==
    /\ pc = "rows" /\ LoopOn
    /\ ~rows[i + 1].null0
    /\ options.pw_type # PW_FUNCTION
    /\ password_encrypt(options.pw_type, TheUser, ThePass,
                        rows[i + 1].pw, rows[i + 1].salt) = UB
    /\ \/ /\ pc' = "crashed"
          /\ UNCHANGED <<rc, i, tmps>>
       \/ \E tmp \in {NULL, Garbage} :
             /\ tmps' = Append(tmps, tmp)
             /\ rc' = IF RowMatch(options.pw_type, rows[i + 1].pw, tmp)
                      THEN PAM_SUCCESS ELSE rc
             /\ i' = i + 1
             /\ pc' = pc
    /\ UNCHANGED rowFrame

\* the loop's condition fails
RowsDone ==
    /\ pc = "rows" /\ ~LoopOn
    /\ pc' = "clear"
    /\ UNCHANGED <<rc, i, tmps, rowFrame>>

\* PQclear(res)
Clear ==
    /\ pc = "clear"
    /\ resLive' = resLive - 1
    /\ pc' = "finish"
    /\ UNCHANGED <<options, answer, rhost, rc, connVars, raddr, raddrLive,
                   expandVars, execCalls, sent, resStatus, rows, i, tmps>>

\* PQfinish(conn); return rc
Finish ==
    /\ pc = "finish"
    /\ connsLive' = connsLive - 1
    /\ pc' = "done"
    /\ UNCHANGED <<options, answer, rhost, rc, connStatus, connsOpened,
                   damaged, raddr, raddrLive, expandVars, storeVars>>

(* ------------------------- undefined behaviour ------------------------ *)
\* once the attempt has read or written outside an object, going on as if
\* nothing happened is one outcome and the death of the process another
Fault ==
    /\ pc \in {"build", "expanded", "rows", "clear", "finish"}
    /\ damaged \/ Overread \/ BufferOverflow \/ ValuesOverflow
    /\ pc' = "crashed"
    /\ UNCHANGED <<options, answer, rhost, rc, connVars, raddr, raddrLive,
                   expandVars, storeVars>>

Next ==
    \/ ConnectOk
    \/ ConnectFail
    \/ ExecParamBegin
    \/ ScanToken
    \/ ScanEscape
    \/ ScanChar
    \/ ScanEnd
    \/ BuildToken
    \/ BuildAmbiguousHost
    \/ BuildNullHost
    \/ BuildEscape
    \/ BuildLiteral
    \/ BuildEnd
    \/ ExpandFailed
    \/ ExecFail
    \/ ExecOk
    \/ RowNull
    \/ RowFunction
    \/ RowEncrypt
    \/ RowEncryptNullSalt
    \/ RowsDone
    \/ Clear
    \/ Finish
    \/ Fault

Spec == Init /\ [][Next]_vars

SpecExpand == InitExpand /\ [][Next]_vars


(* ======================================================================= *)
(* The claims.                                                             *)
(* ======================================================================= *)
Template == options.query_auth
Returned == pc = "done"

\* position k holds a % that opens a two-character sequence: a % that is
\* not the second character of the sequence opened just before it
RECURSIVE OpensPair(_, _)
OpensPair(t, k) ==
    k <= Len(t) /\ t[k] = "%" /\ (k = 1 \/ ~OpensPair(t, k - 1))

TokenStarts(t) == {k \in 1..(Len(t) - 1) : OpensPair(t, k) /\ t[k + 1] \in Tokens}

UnknownStarts(t) ==
    {k \in 1..(Len(t) - 1) : OpensPair(t, k) /\ t[k + 1] \notin Tokens \cup {"%"}}

TokenCount(t) == Cardinality(TokenStarts(t))

\* the value bound to the token at each token position, left to right
RECURSIVE ValuesOf(_, _, _)
ValuesOf(t, lo, hi) ==
    IF lo > hi THEN << >>
    ELSE IF lo = hi
    THEN IF OpensPair(t, lo) /\ lo < Len(t) /\ t[lo + 1] \in Tokens
         THEN <<TokenValue(t[lo + 1])>> ELSE << >>
    ELSE LET mid == (lo + hi) \div 2
         IN  ValuesOf(t, lo, mid) \o ValuesOf(t, mid + 1, hi)

\* C1: whenever the connection fails or the query's execution fails, the
\* attempt's outcome is AUTHINFO_UNAVAILABLE.
C1_FailureIsUnavailable ==
    Returned /\ (connStatus = CONNECTION_BAD \/ resStatus = PGRES_FATAL_ERROR)
        => rc = PAM_AUTHINFO_UNAVAIL

\* row k, already examined, matches in the claim's sense
ClaimMatch(k) ==
    /\ ~rows[k].null0
    /\ IF options.pw_type = PW_FUNCTION
       THEN rows[k].pw = <<"t">>
       ELSE tmps[k] \notin {NULL, NotCalled} /\ tmps[k] = rows[k].pw

\* C2: with the connection and the execution both succeeding: zero rows
\* give USER_UNKNOWN; otherwise the outcome is SUCCESS exactly when a row
\* matched, no row behind the first matching one was examined, every row
\* was examined when none matched and the outcome is then AUTH_ERR, and
\* under FUNCTION the codec was never called.
C2_RowDecision ==
    Returned /\ connStatus = CONNECTION_OK
             /\ resStatus \in {PGRES_COMMAND_OK, PGRES_TUPLES_OK}
    => /\ Len(rows) = 0 => rc = PAM_USER_UNKNOWN
       /\ Len(rows) > 0 =>
            /\ rc \in {PAM_SUCCESS, PAM_AUTH_ERR}
            /\ rc = PAM_SUCCESS <=> \E k \in 1..Len(tmps) : ClaimMatch(k)
            /\ \A k \in 1..Len(tmps) : ClaimMatch(k) => Len(tmps) = k
            /\ rc # PAM_SUCCESS => Len(tmps) = Len(rows)
            /\ options.pw_type = PW_FUNCTION
                 => \A k \in 1..Len(tmps) : tmps[k] = NotCalled

\* C2's case: the first of two rows matched under a hashing scheme and
\* the second was never examined
C2_Witness ==
    /\ Returned /\ rc = PAM_SUCCESS
    /\ options.pw_type = PW_MD5_POSTGRES
    /\ Len(rows) = 2 /\ Len(tmps) = 1
    /\ tmps[1] = rows[1].pw

\* concatenation of f[lo] .. f[hi], by halves
RECURSIVE Concat(_, _, _)
Concat(f, lo, hi) ==
    IF lo > hi THEN << >>
    ELSE IF lo = hi THEN f[lo]
    ELSE LET mid == (lo + hi) \div 2
         IN  Concat(f, lo, mid) \o Concat(f, mid + 1, hi)

\* what the claimed expansion writes for template position k, with an
\* unrecognised %x read as the specification's section 4.1 reads it (the % dropped,
\* x copied)
ClaimedPiece(t, k) ==
    IF OpensPair(t, k) /\ k < Len(t)
    THEN IF t[k + 1] \in Tokens
         THEN <<"$">> \o DecStr(Len(ValuesOf(t, 1, k)))
         ELSE << >>
    ELSE IF k > 1 /\ OpensPair(t, k - 1)
    THEN IF t[k] \in Tokens THEN << >> ELSE <<t[k]>>
    ELSE IF OpensPair(t, k) THEN << >>
    ELSE <<t[k]>>

ClaimedQuery(t) == Concat([k \in 1..Len(t) |-> ClaimedPiece(t, k)], 1, Len(t))

ClaimedArgs(t) == ValuesOf(t, 1, Len(t))

\* C3: for every template the expansion returns the query with the k-th
\* token replaced by $k and everything else copied, args[k-1] bound to the
\* k-th token's value, and the count of token occurrences.  Stated with
\* the two behaviours the specification's section 4.1 sets apart left out of it (the
\* unrecognised %x, the %i abort), so that only the claim's own content is
\* checked.
C3_ExpansionAsClaimed ==
    pc = "expanded" /\ Template # NULL
      /\ ~(raddr = NULL /\ \E k \in TokenStarts(Template) : Template[k + 1] = "i")
    => /\ buf # NULL
       /\ CStr(buf) = ClaimedQuery(Template)
       /\ nparm = TokenCount(Template)
       /\ values = ClaimedArgs(Template) \o <<NULL>>

\* the encoding the scheme table assigns
ClaimedEncoding(pw_type, user, pass, stored, stored_salt) ==
    CASE pw_type \in {PW_CRYPT, PW_CRYPT_MD5, PW_CRYPT_SHA512} ->
            Crypt(pass, stored)
      [] pw_type = PW_MD5 -> MD5Hex(pass)
      [] pw_type = PW_MD5_POSTGRES -> <<"m", "d", "5">> \o MD5Hex(pass \o user)
      [] pw_type = PW_SHA1 -> SHA1Hex(pass)
      [] pw_type = PW_PBKDF2 ->
            calc_PBKDF2_HMAC_SHA256(pass, base64_decode(stored_salt),
                                    PBKDF2Iter, PBKDF2KeyLen)
      [] pw_type = PW_CLEAR -> pass

\* C4: every call of password_encrypt returns the encoding the scheme
\* table assigns to the configured scheme; under CLEAR that is the
\* cleartext, whatever the stored value and salt (an absent salt included).
C4_SchemeTable ==
    \A k \in 1..Len(tmps) :
        tmps[k] # NotCalled
          /\ (options.pw_type = PW_PBKDF2 => rows[k].salt # NULL)
        => tmps[k] = ClaimedEncoding(options.pw_type, TheUser, ThePass,
                                     rows[k].pw, rows[k].salt)

\* C5: on every exit path exactly one connection was opened and it is
\* closed, and the result set, the query buffer and the address buffer
\* have been released.
C5_AllReleased ==
    Returned => /\ connsOpened = 1
                /\ connsLive = 0
                /\ resLive = 0
                /\ cmdLive = 0
                /\ raddrLive = 0

\* C6, as claimed: a template holding a % before a character outside
\* {u, p, s, h, i, %} yields no query, and no query is executed.
C6_UnknownTokenAborts ==
    \/ /\ execCalls = 0
       /\ pc = "expanded" => buf = NULL
    \/ Template = NULL
    \/ UnknownStarts(Template) = {}

\* C6, amended: when the build pass stands at a % before a character
\* outside {u, p, s, h, i, %}, its step drops the %, copies that one
\* character to the query, binds no parameter and goes on behind the
\* two; it does not abort.
C6_UnknownTokenCopied ==
    [][(/\ pc = "build" /\ p < Len(Template)
        /\ Template[p] = "%" /\ Template[p + 1] \notin Tokens \cup {"%"}
        /\ pc' # "crashed")
        => /\ pc' = "build"
           /\ buf' = Append(buf, Template[p + 1])
           /\ p' = p + 2
           /\ nparm' = nparm /\ values' = values]_vars

\* C6's case: the template "%x" was expanded to the query "x", which was
\* executed
C6_Witness ==
    /\ Template = <<"%", "x">>
    /\ execCalls = 1
    /\ sent.query = <<"x">>
    /\ sent.nparm = 0

\* C7: expand_query writes only to slots 0..127 of values[], the
\* terminating NULL included.
C7_SlotsInBounds == slotHigh < ValuesSize

\* C9: for a template with at most 128 token occurrences the build pass
\* touches no byte behind the len + 1 the pre-scan computed.  Stated for
\* the runs that read nothing behind the template's terminator, so that
\* what is refuted is the pre-scan's count.
C9_BuildWithinCapacity ==
    \/ qHigh <= cap
    \/ Template = NULL
    \/ Overread
    \/ TokenCount(Template) > ValuesSize

\* C10: neither the pre-scan nor the build pass reads a template position
\* behind the terminating zero byte.
C10_ReadsStopAtTerminator ==
    Template # NULL => maxRead <= Len(Template) + 1

\* C8: no step of an attempt writes to the options record.
C8_ConfigurationReadOnly == [][options' = options]_vars

=============================================================================
